---- MODULE Spec2Model ----
(***************************************************************************)
(* Model of the storm-event pipeline: the Fetcher (src/src/download_noaa.py) *)
(* and the Transformer (src/src/make_tx_dataset.py).                        *)
(*                                                                         *)
(* Text is modelled by what the code reads of it.  A character of a digit  *)
(* field is a glyph code: 0..9 are the ASCII digits '0'..'9', 10..19 are   *)
(* the full-width digits U+FF10..U+FF19 (decimal digits for Python's \d    *)
(* and int(), ordered after the ASCII digits).                              *)
(***************************************************************************)
EXTENDS Integers, Sequences, FiniteSets, TLC

VARIABLES
    listing,       \* a directory listing handed to build_latest_file_map
    result,        \* what build_latest_file_map returned for it
    pc,            \* position of the Fetcher's main()
    latest_map,    \* main's latest_map: year -> filename
    missing_years, \* main's missing_years, as reported
    year,          \* loop variable of main's for-loop
    raw,           \* RAW_DIR: path -> file content
    err,           \* exception that ended the run
    log,           \* calls main has started in this run, in order
    requests,      \* destinations download_file has requested in this run
    opens,         \* per destination: times a file was opened for writing
    clean,         \* no run on this raw directory has failed so far
    value,         \* an input of parse_damage_to_dollars
    parsed,        \* what parse_damage_to_dollars did with it
    tpc,           \* position of the Transformer's main()
    chunksize,     \* the chunksize load_filter_tx_one_file is called with
    files,         \* list(iter_year_files()): the paths main iterates over
    loaded,        \* the paths load_filter_tx_one_file has been called on
    all_tx,        \* main's all_tx: the non-empty per-year tables
    out,           \* content of OUT_PATH
    terr,          \* exception that ended the Transformer
    prior          \* content of OUT_PATH when the Transformer was started

mvars == <<listing, result>>
fvars == <<pc, latest_map, missing_years, year, err, log, requests, opens, clean>>
pvars == <<value, parsed>>
tvars == <<tpc, chunksize, files, loaded, all_tx, out, terr, prior>>
vars == <<mvars, fvars, raw, pvars, tvars>>

(***************************************************************************)
(* Bounds                                                                  *)
(***************************************************************************)
StartYear == 2010
EndYear == 2011
MaxListing == 3

Years == StartYear..EndYear

(***************************************************************************)
(* File names                                                              *)
(***************************************************************************)
DetailsStem == "StormEvents_details-ftp_v1.0_d"
YearWidth == 4
CdateWidth == 8

RECURSIVE Pow10(_)
Pow10(k) == IF k = 0 THEN 1 ELSE 10 * Pow10(k - 1)

\* the ASCII decimal digits of n, w characters wide (f"{year}" for a 4-digit year)
Ascii(n, w) == [i \in 1..w |-> (n \div Pow10(w - i)) % 10]

FullWidth(ds) == [i \in DOMAIN ds |-> ds[i] + 10]

Name(stem, y, c, ext) == [stem |-> stem, year |-> y, cdate |-> c, ext |-> ext]

\* \d of a str pattern: any Unicode decimal digit
IsDigit(g) == g \in 0..19

\* int() of a digit string, most significant digit first
RECURSIVE IntOf(_)
IntOf(ds) ==
    IF ds = <<>> THEN 0
    ELSE 10 * IntOf(SubSeq(ds, 1, Len(ds) - 1)) + (ds[Len(ds)] % 10)

\* DETAILS_PATTERN matches the whole of the name
DETAILS_PATTERN(n) ==
    /\ n.stem = DetailsStem
    /\ Len(n.year) = YearWidth
    /\ \A i \in DOMAIN n.year : IsDigit(n.year[i])
    /\ Len(n.cdate) = CdateWidth
    /\ \A i \in DOMAIN n.cdate : IsDigit(n.cdate[i])
    /\ n.ext = ".csv.gz"

\* the names a listing is drawn from
Rev1 == 20210115
Rev2 == 20220601

ListedNames ==
    {Name(DetailsStem, Ascii(y, YearWidth), Ascii(Rev1, CdateWidth), ".csv.gz") : y \in Years}
    \cup {Name(DetailsStem, Ascii(StartYear, YearWidth), Ascii(Rev2, CdateWidth), ".csv.gz"),
          Name(DetailsStem, Ascii(StartYear, YearWidth), FullWidth(Ascii(Rev2, CdateWidth)), ".csv.gz"),
          Name(DetailsStem, Ascii(StartYear, YearWidth), Ascii(Rev2 \div 10, CdateWidth - 1), ".csv.gz")}

Listings == UNION {[1..n -> ListedNames] : n \in 0..MaxListing}

(***************************************************************************)
(* build_latest_file_map                                                   *)
(***************************************************************************)
\* the (year, cdate, fname) tuples of the matches, in text order
Matches(html) ==
    LET ms == SelectSeq(html, DETAILS_PATTERN)
    IN  [i \in DOMAIN ms |-> [year |-> IntOf(ms[i].year), cdate |-> IntOf(ms[i].cdate), fname |-> ms[i]]]

\* line 41 with >= for >: the last of equal dates wins
TakesOverMut(m, latest) == (m.year \notin DOMAIN latest) \/ (m.cdate >= latest[m.year].cdate)

\* line 41: whether a match replaces the entry kept so far
TakesOver(m, latest) == (m.year \notin DOMAIN latest) \/ (m.cdate > latest[m.year].cdate)

RECURSIVE KeepLatest(_, _, _)
KeepLatest(ms, i, latest) ==
    IF i > Len(ms) THEN latest
    ELSE KeepLatest(ms, i + 1,
            IF TakesOver(ms[i], latest)
            THEN [y \in DOMAIN latest \cup {ms[i].year} |->
                     IF y = ms[i].year THEN [cdate |-> ms[i].cdate, fname |-> ms[i].fname]
                     ELSE latest[y]]
            ELSE latest)

\* lines 34-36 left out
build_latest_file_map_noraise(html) ==
    LET latest == KeepLatest(Matches(html), 1, <<>>)
    IN  [ok |-> TRUE, map |-> [y \in DOMAIN latest |-> latest[y].fname]]

build_latest_file_map(html) ==
    LET ms == Matches(html)
    IN  IF ms = <<>> THEN [ok |-> FALSE, error |-> "RuntimeError"]
        ELSE LET latest == KeepLatest(ms, 1, <<>>)
             IN  [ok |-> TRUE, map |-> [y \in DOMAIN latest |-> latest[y].fname]]

(***************************************************************************)
(* download_file and gunzip_file                                           *)
(***************************************************************************)
\* gz_name.replace(".gz", "")
CsvName(gz_name) == [gz_name EXCEPT !.ext = IF @ = ".csv.gz" THEN ".csv" ELSE @]

\* what the server may send for a name
Payloads == {"bytes"}

Exists(dir, path) == path \in DOMAIN dir

WriteFile(dir, path, content) ==
    [p \in DOMAIN dir \cup {path} |-> IF p = path THEN content ELSE dir[p]]

\* the existence test left out
AlreadyThereMut(dir, path) == FALSE

\* lines 47 and 63: the early return on an existing destination
AlreadyThere(dir, path) == Exists(dir, path)

Bump(count, path) ==
    [p \in DOMAIN count \cup {path} |-> IF p = path /\ p \in DOMAIN count THEN count[p] + 1
                                        ELSE IF p = path THEN 1 ELSE count[p]]

\* the exception caught and the loop resumed
PropagateMut(e) == [pc |-> "loop", err |-> e]

\* main has no try/except: an exception raised at lines 71, 72, 88 or 89 ends the run
Propagate(e) == [pc |-> "failed", err |-> e]

\* break for continue
AfterSkipMut(y) == EndYear + 1

\* line 80: continue
AfterSkip(y) == y + 1

(***************************************************************************)
(* build_latest_file_map applied to a listing                              *)
(***************************************************************************)
MapIdle == listing = <<>> /\ result = [pending |-> TRUE]
FetchIdle ==
    /\ pc = "idle" /\ latest_map = <<>> /\ missing_years = <<>> /\ year = StartYear
    /\ err = "none" /\ log = <<>> /\ requests = {} /\ opens = <<>> /\ clean = TRUE
ParseIdle == value = [kind |-> "None"] /\ parsed = [pending |-> TRUE]
TransformIdle ==
    /\ tpc = "idle" /\ chunksize = 1 /\ files = <<>> /\ loaded = <<>>
    /\ all_tx = <<>> /\ out = [written |-> FALSE] /\ terr = "none"
    /\ prior = [written |-> FALSE]

MapInit ==
    /\ listing \in Listings
    /\ result = [pending |-> TRUE]
    /\ FetchIdle /\ raw = <<>> /\ ParseIdle /\ TransformIdle

ApplyBuildMap ==
    /\ "pending" \in DOMAIN result
    /\ result' = build_latest_file_map(listing)
    /\ UNCHANGED <<listing, fvars, raw, pvars, tvars>>

SpecMap == MapInit /\ [][ApplyBuildMap]_vars

(***************************************************************************)
(* main of the Fetcher                                                     *)
(***************************************************************************)
FetchInit ==
    /\ MapIdle /\ ParseIdle /\ TransformIdle
    /\ pc = "start"
    /\ latest_map = <<>>
    /\ missing_years = <<>>
    /\ year = StartYear
    /\ raw = <<>>
    /\ err = "none"
    /\ log = <<>>
    /\ requests = {}
    /\ opens = <<>>
    /\ clean = TRUE

\* lines 71-72: build_latest_file_map(html) for every page fetch_directory_listing
\* may return
Fetched == {build_latest_file_map(html) : html \in Listings}

\* line 71: fetch_directory_listing raises (unreachable, timeout, non-2xx)
FetchListingFails ==
    /\ pc = "start"
    /\ pc' = Propagate("HTTPError").pc
    /\ err' = Propagate("HTTPError").err
    /\ UNCHANGED <<latest_map, missing_years, year, raw, log, requests, opens>>
    /\ clean' = FALSE
    /\ UNCHANGED <<mvars, pvars, tvars>>

\* lines 71-72 and 34-36: the page is fetched and holds no match
NoMatchInListing ==
    /\ pc = "start"
    /\ \E r \in Fetched :
              /\ ~r.ok
              /\ pc' = Propagate(r.error).pc
              /\ err' = Propagate(r.error).err
    /\ UNCHANGED <<latest_map, missing_years, year, raw, log, requests, opens>>
    /\ clean' = FALSE
    /\ UNCHANGED <<mvars, pvars, tvars>>

\* range(start_year, end_year + 1) filtered by absence from the map, in order
RECURSIVE MissingFrom(_, _)
MissingFrom(y, map) ==
    IF y > EndYear THEN <<>>
    ELSE (IF y \notin DOMAIN map THEN <<y>> ELSE <<>>) \o MissingFrom(y + 1, map)

\* lines 71-78: the page is fetched, the map built, the missing years reported
MapBuilt ==
    /\ pc = "start"
    /\ \E r \in Fetched :
              /\ r.ok
              /\ latest_map' = r.map
              /\ missing_years' = MissingFrom(StartYear, r.map)
    /\ pc' = "loop"
    /\ year' = StartYear
    /\ UNCHANGED <<raw, err, log, requests, opens>>
    /\ UNCHANGED <<clean, mvars, pvars, tvars>>

\* line 78: the range is exhausted
LoopExit ==
    /\ pc = "loop"
    /\ year > EndYear
    /\ pc' = "done"
    /\ UNCHANGED <<latest_map, missing_years, year, raw, err, log, requests, opens>>
    /\ UNCHANGED <<clean, mvars, pvars, tvars>>

\* lines 79-80
SkipYear ==
    /\ pc = "loop"
    /\ year <= EndYear
    /\ year \notin DOMAIN latest_map
    /\ year' = AfterSkip(year)
    /\ UNCHANGED <<pc, latest_map, missing_years, raw, err, log, requests, opens>>
    /\ UNCHANGED <<clean, mvars, pvars, tvars>>

\* lines 82-88: the year's names are resolved and download_file is called
BeginYear ==
    /\ pc = "loop"
    /\ year <= EndYear
    /\ year \in DOMAIN latest_map
    /\ pc' = "download"
    /\ log' = Append(log, <<"download", year>>)
    /\ UNCHANGED <<latest_map, missing_years, year, raw, err, requests, opens>>
    /\ UNCHANGED <<clean, mvars, pvars, tvars>>

gz_path == latest_map[year]
csv_path == CsvName(latest_map[year])

\* lines 47-49, then line 89 calls gunzip_file
DownloadSkip ==
    /\ pc = "download"
    /\ AlreadyThere(raw, gz_path)
    /\ pc' = "gunzip"
    /\ log' = Append(log, <<"gunzip", year>>)
    /\ UNCHANGED <<latest_map, missing_years, year, raw, err, requests, opens>>
    /\ UNCHANGED <<clean, mvars, pvars, tvars>>

\* lines 51-60 run to the end, then line 89 calls gunzip_file
DownloadOk ==
    /\ pc = "download"
    /\ ~AlreadyThere(raw, gz_path)
    /\ requests' = requests \cup {gz_path}
    /\ opens' = Bump(opens, gz_path)
    /\ \E v \in Payloads : raw' = WriteFile(raw, gz_path, [data |-> v, whole |-> TRUE])
    /\ pc' = "gunzip"
    /\ log' = Append(log, <<"gunzip", year>>)
    /\ UNCHANGED <<latest_map, missing_years, year, err>>
    /\ UNCHANGED <<clean, mvars, pvars, tvars>>

\* lines 51-52: requests.get or raise_for_status raises; nothing was opened
DownloadHttpFails ==
    /\ pc = "download"
    /\ ~AlreadyThere(raw, gz_path)
    /\ requests' = requests \cup {gz_path}
    /\ pc' = Propagate("HTTPError").pc
    /\ err' = Propagate("HTTPError").err
    /\ log' = log
    /\ UNCHANGED <<latest_map, missing_years, year, raw, opens>>
    /\ clean' = FALSE
    /\ UNCHANGED <<mvars, pvars, tvars>>

\* lines 54-60: the stream breaks after the destination was opened
DownloadStreamFails ==
    /\ pc = "download"
    /\ ~AlreadyThere(raw, gz_path)
    /\ requests' = requests \cup {gz_path}
    /\ opens' = Bump(opens, gz_path)
    /\ \E v \in Payloads : raw' = WriteFile(raw, gz_path, [data |-> v, whole |-> FALSE])
    /\ pc' = Propagate("ConnectionError").pc
    /\ err' = Propagate("ConnectionError").err
    /\ log' = log
    /\ UNCHANGED <<latest_map, missing_years, year>>
    /\ clean' = FALSE
    /\ UNCHANGED <<mvars, pvars, tvars>>

\* lines 63-65, then the loop goes on
GunzipSkip ==
    /\ pc = "gunzip"
    /\ AlreadyThere(raw, csv_path)
    /\ pc' = "loop"
    /\ year' = year + 1
    /\ UNCHANGED <<latest_map, missing_years, raw, err, log, requests, opens>>
    /\ UNCHANGED <<clean, mvars, pvars, tvars>>

\* lines 66-68 on a complete archive
GunzipOk ==
    /\ pc = "gunzip"
    /\ ~AlreadyThere(raw, csv_path)
    /\ Exists(raw, gz_path)
    /\ raw[gz_path].whole
    /\ opens' = Bump(opens, csv_path)
    /\ raw' = WriteFile(raw, csv_path, [data |-> raw[gz_path].data, whole |-> TRUE])
    /\ pc' = "loop"
    /\ year' = year + 1
    /\ UNCHANGED <<latest_map, missing_years, err, log, requests>>
    /\ UNCHANGED <<clean, mvars, pvars, tvars>>

\* lines 66-67: gzip.open fails on a missing archive before the destination is
\* opened; a truncated archive or a write error raises after it was opened
GunzipFails ==
    /\ pc = "gunzip"
    /\ ~AlreadyThere(raw, csv_path)
    /\ IF ~Exists(raw, gz_path)
       THEN /\ err' = Propagate("FileNotFoundError").err
            /\ UNCHANGED <<raw, opens>>
       ELSE /\ err' = Propagate(IF raw[gz_path].whole THEN "OSError" ELSE "EOFError").err
            /\ opens' = Bump(opens, csv_path)
            /\ raw' = WriteFile(raw, csv_path, [data |-> raw[gz_path].data, whole |-> FALSE])
    /\ pc' = Propagate("any").pc
    /\ UNCHANGED <<latest_map, missing_years, year, log, requests>>
    /\ clean' = FALSE
    /\ UNCHANGED <<mvars, pvars, tvars>>

\* the job is started again on the raw directory the last run left
RunAgain ==
    /\ pc \in {"done", "failed"}
    /\ pc' = "start"
    /\ latest_map' = <<>>
    /\ missing_years' = <<>>
    /\ year' = StartYear
    /\ err' = "none"
    /\ log' = <<>>
    /\ requests' = {}
    /\ UNCHANGED <<raw, opens>>
    /\ UNCHANGED <<clean, mvars, pvars, tvars>>

FetchNext ==
    \/ FetchListingFails
    \/ NoMatchInListing
    \/ MapBuilt
    \/ LoopExit
    \/ SkipYear
    \/ BeginYear
    \/ DownloadSkip
    \/ DownloadOk
    \/ DownloadHttpFails
    \/ DownloadStreamFails
    \/ GunzipSkip
    \/ GunzipOk
    \/ GunzipFails
    \/ RunAgain

SpecFetch == FetchInit /\ [][FetchNext]_vars

(***************************************************************************)
(* parse_damage_to_dollars                                                 *)
(*                                                                         *)
(* A str is a sequence of one-character strings; "KELVIN" stands for the   *)
(* single character U+212A.  A number is a decimal [m, e] = m * 10^e with  *)
(* m not a multiple of 10 (zero is [0, 0]); the rounding of binary         *)
(* floating point is not modelled.                                         *)
(***************************************************************************)
MaxText == 3

DigitChars == <<"0", "1", "2", "3", "4", "5", "6", "7", "8", "9">>
IsDigitChar(c) == \E d \in DOMAIN DigitChars : DigitChars[d] = c
DigitValue(c) == (CHOOSE d \in DOMAIN DigitChars : DigitChars[d] = c) - 1

\* str.isspace for the characters used
IsSpace(c) == c \in {" ", "\t"}

\* str.upper, character by character; U+212A has no other upper case
UpperTable ==
    [c \in {"a", "b", "e", "h", "i", "k", "m", "n", "o", "s", "t", "x"} |->
        CASE c = "a" -> "A" [] c = "b" -> "B" [] c = "e" -> "E" [] c = "h" -> "H"
          [] c = "i" -> "I" [] c = "k" -> "K" [] c = "m" -> "M" [] c = "n" -> "N"
          [] c = "o" -> "O" [] c = "s" -> "S" [] c = "t" -> "T" [] c = "x" -> "X"]
Upper(str) == [i \in DOMAIN str |-> IF str[i] \in DOMAIN UpperTable THEN UpperTable[str[i]] ELSE str[i]]

\* str.strip
RECURSIVE LStrip(_)
LStrip(str) == IF str # <<>> /\ IsSpace(str[1]) THEN LStrip(Tail(str)) ELSE str
RECURSIVE RStrip(_)
RStrip(str) ==
    IF str # <<>> /\ IsSpace(str[Len(str)]) THEN RStrip(SubSeq(str, 1, Len(str) - 1)) ELSE str
Strip(str) == RStrip(LStrip(str))

RECURSIVE Norm(_, _)
Norm(m, e) ==
    IF m = 0 THEN [m |-> 0, e |-> 0]
    ELSE IF m % 10 = 0 THEN Norm(m \div 10, e + 1)
    ELSE [m |-> m, e |-> e]

Zero == Norm(0, 0)

\* str(value) of the values that are not str
StrOfNaN == <<"n", "a", "n">>

\* [0-9]*\.?[0-9]+ matches the whole of t
IsDecimal(t) ==
    /\ t # <<>>
    /\ \A i \in DOMAIN t : IsDigitChar(t[i]) \/ t[i] = "."
    /\ Cardinality({i \in DOMAIN t : t[i] = "."}) <= 1
    /\ IsDigitChar(t[Len(t)])

\* [KMB] under re.IGNORECASE: the letters of either case, and U+212A for K
SuffixMatches(c) == c \in {"K", "k", "M", "m", "B", "b", "KELVIN"}

\* the longest prefix of digits and points
RECURSIVE NumberEnd(_, _)
NumberEnd(str, i) ==
    IF i <= Len(str) /\ (IsDigitChar(str[i]) \/ str[i] = ".") THEN NumberEnd(str, i + 1) ELSE i - 1

\* _DAMAGE_RE.match(s) of a stripped s: the groups, or no match
DamageMatch(str) ==
    LET k == NumberEnd(str, 1)
        num == SubSeq(str, 1, k)
        rest == SubSeq(str, k + 1, Len(str))
        spaces(t) == \A i \in DOMAIN t : IsSpace(t[i])
    IN  IF ~IsDecimal(num) THEN [matched |-> FALSE]
        ELSE IF rest = <<>> THEN [matched |-> TRUE, amount |-> num, suffix |-> <<>>]
        ELSE IF SuffixMatches(rest[Len(rest)]) /\ spaces(SubSeq(rest, 1, Len(rest) - 1))
             THEN [matched |-> TRUE, amount |-> num, suffix |-> <<rest[Len(rest)]>>]
        ELSE [matched |-> FALSE]

\* float() of a matched amount
RECURSIVE DigitsValue(_)
DigitsValue(t) ==
    IF t = <<>> THEN 0
    ELSE 10 * DigitsValue(SubSeq(t, 1, Len(t) - 1)) + DigitValue(t[Len(t)])

FloatOfDecimal(t) ==
    LET dot == {i \in DOMAIN t : t[i] = "."}
        digits == SelectSeq(t, IsDigitChar)
        frac == IF dot = {} THEN 0 ELSE Len(t) - (CHOOSE i \in dot : TRUE)
    IN  Norm(DigitsValue(digits), 0 - frac)

\* lines 58-64
Multiplier(suffix) ==
    IF suffix = <<"K">> THEN 3
    ELSE IF suffix = <<"M">> THEN 6
    ELSE IF suffix = <<"B">> THEN 9
    ELSE 0

Return(x) == [raised |-> FALSE, ret |-> x]

\* lines 47-66, for the str of the value
ParseText(text) ==
    LET str == Strip(text)
        m == DamageMatch(str)
    IN  IF str = <<>> \/ Upper(str) = <<"N", "A">> \/ Upper(str) = <<"N", "/", "A">> THEN Return(Zero)
        ELSE IF ~m.matched THEN Return(Zero)
        ELSE LET amount == FloatOfDecimal(m.amount)
             IN  Return(Norm(amount.m, amount.e + Multiplier(Upper(m.suffix))))

\* lines 40-66.  The kinds of value: None; an int or a float that float() converts;
\* an int beyond the range of float; NaN; a str
parse_damage_to_dollars(v) ==
    IF v.kind = "None" THEN Return(Zero)
    ELSE IF v.kind = "number" THEN Return(Norm(v.m, v.e))
    ELSE IF v.kind = "bigint" THEN [raised |-> TRUE, error |-> "OverflowError"]
    ELSE IF v.kind = "nan" THEN ParseText(StrOfNaN)
    ELSE ParseText(v.s)

TextChars == {"1", "5", ".", "K", "k", "M", "B", " ", "N", "A", "a", "/", "x", "KELVIN"}
Texts == UNION {[1..n -> TextChars] : n \in 0..MaxText}

Values ==
    {[kind |-> "None"], [kind |-> "nan"], [kind |-> "bigint"],
     [kind |-> "number", m |-> 1234, e |-> -1], [kind |-> "number", m |-> 500, e |-> 0]}
    \cup {[kind |-> "str", s |-> t] : t \in Texts}

ParseInit ==
    /\ value \in Values
    /\ parsed = [pending |-> TRUE]
    /\ MapIdle /\ FetchIdle /\ raw = <<>> /\ TransformIdle

ApplyParse ==
    /\ "pending" \in DOMAIN parsed
    /\ parsed' = parse_damage_to_dollars(value)
    /\ UNCHANGED <<value, mvars, fvars, raw, tvars>>

SpecParse == ParseInit /\ [][ApplyParse]_vars

(***************************************************************************)
(* iter_year_files                                                         *)
(***************************************************************************)
\* str < str: code point by code point, a proper prefix first
RECURSIVE LexLess(_, _)
LexLess(a, b) ==
    IF a = <<>> THEN b # <<>>
    ELSE IF b = <<>> THEN FALSE
    ELSE IF a[1] # b[1] THEN a[1] < b[1]
    ELSE LexLess(Tail(a), Tail(b))

\* RAW_DIR.glob(f"StormEvents_details-ftp_v1.0_d{year}_c*.csv")
Glob(dir, y) ==
    {p \in DOMAIN dir : p.stem = DetailsStem /\ p.year = Ascii(y, YearWidth) /\ p.ext = ".csv"}

\* sorted(...)[-1]: the names of one year differ in the revision field only
LastSorted(ps) == CHOOSE p \in ps : \A q \in ps : q = p \/ LexLess(q.cdate, p.cdate)

\* lines 71-74 for one year
YearFile(dir, y) ==
    LET matches == Glob(dir, y)
    IN  IF matches = {} THEN [found |-> FALSE, error |-> "FileNotFoundError"]
        ELSE [found |-> TRUE, path |-> LastSorted(matches)]

(***************************************************************************)
(* load_filter_tx_one_file                                                 *)
(*                                                                         *)
(* A decompressed file is the sequence of its rows.  A row carries the     *)
(* columns the claims are about: STATE (a str, or missing), the two damage *)
(* cells, MAGNITUDE, BEGIN_YEARMONTH and EVENT_ID.                         *)
(***************************************************************************)
MaxRows == 2
MaxChunk == 2

TEXAS == <<"T", "E", "X", "A", "S">>

Str(t) == [kind |-> "str", s |-> t]
NaN == [kind |-> "nan"]

\* the comparison without .str.upper()
IsTexasMut(row) == row.STATE.kind = "str" /\ row.STATE.s = TEXAS

\* chunk["STATE"].str.upper() == "TEXAS"; a missing STATE compares as missing and
\* the row is left out
IsTexas(row) == row.STATE.kind = "str" /\ Upper(row.STATE.s) = TEXAS

\* pd.to_numeric(errors="coerce").fillna(0) of a cell
ToNumeric(v) ==
    IF v.kind = "number" THEN Norm(v.m, v.e)
    ELSE IF v.kind = "str" /\ IsDecimal(Strip(v.s)) THEN FloatOfDecimal(Strip(v.s))
    ELSE Zero

Min2(a, b) == IF a < b THEN a ELSE b

\* float addition of two decimals
Plus(a, b) ==
    LET e == Min2(a.e, b.e)
    IN  Norm(a.m * Pow10(a.e - e) + b.m * Pow10(b.e - e), e)

\* the crop amount left out of the sum
TotalDamageMut(p, c) == p

\* line 100
TotalDamage(p, c) == Plus(p, c)

\* lines 98-104 for one row
Clean(row) ==
    LET p == parse_damage_to_dollars(row.DAMAGE_PROPERTY).ret
        c == parse_damage_to_dollars(row.DAMAGE_CROPS).ret
    IN  [STATE |-> row.STATE,
         DAMAGE_PROPERTY |-> row.DAMAGE_PROPERTY,
         DAMAGE_CROPS |-> row.DAMAGE_CROPS,
         MAGNITUDE |-> ToNumeric(row.MAGNITUDE),
         BEGIN_YEARMONTH |-> row.BEGIN_YEARMONTH,
         EVENT_ID |-> row.EVENT_ID,
         DAMAGE_PROPERTY_USD |-> p,
         DAMAGE_CROPS_USD |-> c,
         TOTAL_DAMAGE_USD |-> TotalDamage(p, c)]

\* pd.read_csv(..., chunksize=n): the rows in batches of n, the last one shorter
RECURSIVE Chunks(_, _)
Chunks(rows, n) ==
    IF rows = <<>> THEN <<>>
    ELSE IF Len(rows) <= n THEN <<rows>>
    ELSE <<SubSeq(rows, 1, n)>> \o Chunks(SubSeq(rows, n + 1, Len(rows)), n)

\* lines 93-106 for one batch: what is appended to tx_chunks, if anything
CleanChunk(chunk) ==
    LET tx == SelectSeq(chunk, IsTexas)
    IN  IF tx = <<>> THEN <<>> ELSE <<[i \in DOMAIN tx |-> Clean(tx[i])]>>

RECURSIVE Concat(_)
Concat(tables) == IF tables = <<>> THEN <<>> ELSE tables[1] \o Concat(Tail(tables))

RECURSIVE TxChunks(_)
TxChunks(chunks) == IF chunks = <<>> THEN <<>> ELSE CleanChunk(chunks[1]) \o TxChunks(Tail(chunks))

\* lines 76-111
load_filter_tx_one_file(rows, n) ==
    LET tx_chunks == TxChunks(Chunks(rows, n))
    IN  IF tx_chunks = <<>> THEN <<>> ELSE Concat(tx_chunks)

(***************************************************************************)
(* main of the Transformer                                                 *)
(***************************************************************************)
\* the rows a raw file may hold
RowKinds ==
    {[STATE |-> Str(TEXAS), DAMAGE_PROPERTY |-> Str(<<"1", "K">>), DAMAGE_CROPS |-> Str(<<"5">>),
      MAGNITUDE |-> [kind |-> "number", m |-> 75, e |-> -2], BEGIN_YEARMONTH |-> 201503],
     [STATE |-> Str(<<"T", "e", "x", "a", "s">>), DAMAGE_PROPERTY |-> NaN,
      DAMAGE_CROPS |-> Str(<<".", "5", "M">>), MAGNITUDE |-> NaN, BEGIN_YEARMONTH |-> 201012],
     [STATE |-> Str(<<"O", "H", "I", "O">>), DAMAGE_PROPERTY |-> Str(<<"2", "M">>),
      DAMAGE_CROPS |-> Str(<<"x">>), MAGNITUDE |-> Str(<<"x">>), BEGIN_YEARMONTH |-> 201101],
     [STATE |-> NaN, DAMAGE_PROPERTY |-> Str(<<"1", "K">>), DAMAGE_CROPS |-> Str(<<"1", "K">>),
      MAGNITUDE |-> NaN, BEGIN_YEARMONTH |-> 201101]}

\* the decompressed files of the listed names that are written in ASCII digits
DiskNames ==
    {CsvName(n) : n \in {l \in ListedNames : DETAILS_PATTERN(l) /\ \A i \in DOMAIN l.cdate : l.cdate[i] \in 0..9}}

RowCount(dir) ==
    LET RECURSIVE Sum(_)
        Sum(ps) == IF ps = {} THEN 0
                   ELSE LET q == CHOOSE q \in ps : TRUE IN Len(dir[q]) + Sum(ps \ {q})
    IN  Sum(DOMAIN dir)

\* lines 127-128
WithBeginColumns(row) ==
    row @@ [BEGIN_YEAR |-> row.BEGIN_YEARMONTH \div 100, BEGIN_MONTH |-> row.BEGIN_YEARMONTH % 100]

\* OUT_PATH is absent, or holds the table of an earlier run over other raw files
OldOutput ==
    LET row == CHOOSE k \in RowKinds : k.STATE = Str(TEXAS)
    IN  [written |-> TRUE, rows |-> <<WithBeginColumns(Clean(row @@ [EVENT_ID |-> 0]))>>]

TransformInit ==
    /\ tpc = "idle"
    /\ chunksize = 1
    /\ files = <<>>
    /\ loaded = <<>>
    /\ all_tx = <<>>
    /\ out \in {[written |-> FALSE], OldOutput}
    /\ terr = "none"
    /\ prior = [written |-> FALSE]
    /\ raw = <<>>
    /\ MapIdle /\ FetchIdle /\ ParseIdle

\* a decompressed file appears in the raw directory while no Transformer runs
RawFileAppears ==
    /\ tpc = "idle"
    /\ \E p \in DiskNames \ DOMAIN raw : raw' = WriteFile(raw, p, <<>>)
    /\ UNCHANGED <<tvars, mvars, fvars, pvars>>

\* such a file has one more row
RawRowAppears ==
    /\ tpc = "idle"
    /\ RowCount(raw) < MaxRows
    /\ \E p \in DOMAIN raw, k \in RowKinds :
          raw' = [raw EXCEPT ![p] = Append(@, k @@ [EVENT_ID |-> RowCount(raw) + 1])]
    /\ UNCHANGED <<tvars, mvars, fvars, pvars>>

\* iter_year_files from year y on, consumed to its end or to its exception
RECURSIVE IterFrom(_, _)
IterFrom(dir, y) ==
    IF y > EndYear THEN [ok |-> TRUE, files |-> <<>>]
    ELSE LET f == YearFile(dir, y)
             r == IterFrom(dir, y + 1)
         IN  IF ~f.found THEN [ok |-> FALSE, error |-> f.error]
             ELSE IF r.ok THEN [ok |-> TRUE, files |-> <<f.path>> \o r.files]
             ELSE r

\* a year without a file is passed over
RECURSIVE IterSkipping(_, _)
IterSkipping(dir, y) ==
    IF y > EndYear THEN <<>>
    ELSE (IF YearFile(dir, y).found THEN <<YearFile(dir, y).path>> ELSE <<>>) \o IterSkipping(dir, y + 1)
iter_year_files_skipping(dir) == [ok |-> TRUE, files |-> IterSkipping(dir, StartYear)]

\* list(iter_year_files()) of line 115
iter_year_files(dir) == IterFrom(dir, StartYear)

\* line 115: iter_year_files raises while the list is built
ResolveFails ==
    /\ tpc = "idle"
    /\ ~iter_year_files(raw).ok
    /\ tpc' = "failed"
    /\ terr' = iter_year_files(raw).error
    /\ files' = <<>>
    /\ loaded' = <<>>
    /\ all_tx' = <<>>
    /\ prior' = out
    /\ UNCHANGED <<chunksize, out, raw, mvars, fvars, pvars>>

\* lines 114-115: the list of the years' files is built
Resolve ==
    /\ tpc = "idle"
    /\ iter_year_files(raw).ok
    /\ files' = iter_year_files(raw).files
    /\ loaded' = <<>>
    /\ all_tx' = <<>>
    /\ terr' = "none"
    /\ tpc' = "scan"
    /\ prior' = out
    /\ \E n \in 1..MaxChunk : chunksize' = n
    /\ UNCHANGED <<out, raw, mvars, fvars, pvars>>

\* lines 115-120 for the next file of the list
LoadFile ==
    /\ tpc = "scan"
    /\ Len(loaded) < Len(files)
    /\ LET f == files[Len(loaded) + 1]
           df_tx == load_filter_tx_one_file(raw[f], chunksize)
       IN  /\ loaded' = Append(loaded, f)
           /\ all_tx' = IF df_tx # <<>> THEN Append(all_tx, df_tx) ELSE all_tx
    /\ UNCHANGED <<tpc, chunksize, files, out, terr, prior, raw, mvars, fvars, pvars>>

\* lines 122-123
NoTexasRows ==
    /\ tpc = "scan"
    /\ Len(loaded) = Len(files)
    /\ all_tx = <<>>
    /\ tpc' = "failed"
    /\ terr' = "RuntimeError"
    /\ UNCHANGED <<chunksize, files, loaded, all_tx, out, prior, raw, mvars, fvars, pvars>>

\* the test left out
NothingFoundMut(tables) == FALSE

\* line 122: the test that guards the concatenation
NothingFound(tables) == tables = <<>>

\* lines 125-131
Save ==
    /\ tpc = "scan"
    /\ Len(loaded) = Len(files)
    /\ ~NothingFound(all_tx)
    /\ LET df == Concat(all_tx)
       IN  out' = [written |-> TRUE, rows |-> [i \in DOMAIN df |-> WithBeginColumns(df[i])]]
    /\ tpc' = "done"
    /\ UNCHANGED <<chunksize, files, loaded, all_tx, terr, prior, raw, mvars, fvars, pvars>>

\* the process has exited; its locals are gone, the raw directory may change and
\* the job may be started again
BackToIdle ==
    /\ tpc \in {"done", "failed"}
    /\ tpc' = "idle"
    /\ files' = <<>>
    /\ loaded' = <<>>
    /\ all_tx' = <<>>
    /\ terr' = "none"
    /\ prior' = [written |-> FALSE]
    /\ chunksize' = 1
    /\ UNCHANGED <<out, raw, mvars, fvars, pvars>>

TransformNext ==
    \/ RawFileAppears
    \/ RawRowAppears
    \/ ResolveFails
    \/ Resolve
    \/ LoadFile
    \/ NoTexasRows
    \/ Save
    \/ BackToIdle

SpecTransform == TransformInit /\ [][TransformNext]_vars

(***************************************************************************)
(* Properties of build_latest_file_map                                     *)
(***************************************************************************)
MatchIdx(l) == {i \in DOMAIN l : DETAILS_PATTERN(l[i])}
YearOf(n) == IntOf(n.year)
CdateOf(n) == IntOf(n.cdate)
YearsIn(l) == {YearOf(l[i]) : i \in MatchIdx(l)}
IdxOfYear(l, y) == {i \in MatchIdx(l) : YearOf(l[i]) = y}
NewestIdx(l, y) == {i \in IdxOfYear(l, y) : \A j \in IdxOfYear(l, y) : CdateOf(l[j]) <= CdateOf(l[i])}
Min(S) == CHOOSE i \in S : \A j \in S : i <= j
Reorderings(l) == {[i \in DOMAIN l |-> l[f[i]]] : f \in Permutations(DOMAIN l)}

Returned == "ok" \in DOMAIN result

InRange(map) == {y \in Years : y \in DOMAIN map}

\* the calls a run makes when nothing fails
RECURSIVE ExpectedLog(_, _)
ExpectedLog(y, map) ==
    IF y > EndYear THEN <<>>
    ELSE (IF y \in DOMAIN map THEN <<(<<"download", y>>), (<<"gunzip", y>>)>> ELSE <<>>)
         \o ExpectedLog(y + 1, map)

IsPrefix(a, b) == Len(a) <= Len(b) /\ SubSeq(b, 1, Len(a)) = a

Running == pc \in {"loop", "download", "gunzip", "done"}

\* C2: a run whose listing cannot be fetched or holds no match fails at once, with
\* no download or decompress call made and the raw directory as it was; a run that
\* goes on to the years has a map with at least one entry.
C2_ListingFailureAborts ==
    /\ [][pc = "start" =>
             \/ /\ pc' = "failed"
                /\ err' \in {"HTTPError", "RuntimeError"}
                /\ log' = <<>> /\ requests' = {}
                /\ raw' = raw /\ opens' = opens
             \/ /\ pc' = "loop"
                /\ DOMAIN latest_map' # {}]_vars
    /\ [][pc = "failed" => (pc' = "start" /\ raw' = raw /\ opens' = opens)]_vars

\* a later run that fails on its listing, over a raw directory that holds files
C2_Witness ==
    /\ pc = "failed"
    /\ err = "RuntimeError"
    /\ log = <<>>
    /\ DOMAIN raw # {}

\* C3: no destination is opened for writing twice, and a download_file or
\* gunzip_file call that finds its destination present issues no request, opens
\* nothing and leaves the raw directory as it is.
C3_SkipWhenPresent ==
    /\ [](\A p \in DOMAIN opens : opens[p] <= 1)
    /\ [][(pc = "download" /\ Exists(raw, gz_path)) =>
             (requests' = requests /\ opens' = opens /\ raw' = raw /\ pc' = "gunzip")]_vars
    /\ [][(pc = "gunzip" /\ Exists(raw, csv_path)) =>
             (requests' = requests /\ opens' = opens /\ raw' = raw /\ pc' = "loop")]_vars

\* download_file has returned on a truncated file left by an earlier run, without a request
C3_Witness ==
    /\ pc = "gunzip"
    /\ Exists(raw, gz_path)
    /\ ~raw[gz_path].whole
    /\ gz_path \notin requests
    /\ opens[gz_path] = 1

\* C5: the missing years are reported and never end the run; the calls are made in
\* ascending year order, each year's download before its decompress, for the years of
\* the range the map holds; a run that completes has made all of them and leaves both
\* files of each such year in the raw directory.
C5_MissingYearsSkipped ==
    /\ Running => missing_years = MissingFrom(StartYear, latest_map)
    /\ Running => IsPrefix(log, ExpectedLog(StartYear, latest_map))
    /\ (pc = "failed" /\ latest_map # <<>>) => year \in InRange(latest_map)
    /\ pc = "done" =>
          /\ log = ExpectedLog(StartYear, latest_map)
          /\ \A y \in InRange(latest_map) :
                Exists(raw, latest_map[y]) /\ Exists(raw, CsvName(latest_map[y]))

\* a completed run that skipped the first year and processed the last
C5_Witness ==
    /\ pc = "done"
    /\ missing_years # <<>>
    /\ StartYear \notin DOMAIN latest_map
    /\ EndYear \in DOMAIN latest_map
    /\ log # <<>>

FileErrors == {"HTTPError", "ConnectionError", "FileNotFoundError", "OSError", "EOFError"}

\* C6: an exception ends the run where it is raised: the last call made is the
\* failing year's, a failed download is not followed by that year's decompress, no
\* later year is called for, and both files of every earlier year are in place.
C6_FirstFailureStops ==
    /\ err # "none" => pc = "failed"
    /\ (pc = "failed" /\ log # <<>>) =>
          /\ err \in FileErrors
          /\ IsPrefix(log, ExpectedLog(StartYear, latest_map))
          /\ log[Len(log)][2] = year
          /\ err \in {"HTTPError", "ConnectionError"} => log[Len(log)][1] = "download"
          /\ err \in {"FileNotFoundError", "OSError", "EOFError"} => log[Len(log)][1] = "gunzip"
          /\ \A y \in InRange(latest_map) :
                y < year => Exists(raw, latest_map[y]) /\ Exists(raw, CsvName(latest_map[y]))

\* a download fails in the first year while the map holds a later year, not yet fetched
C6_Witness ==
    /\ pc = "failed"
    /\ err = "HTTPError"
    /\ log = <<(<<"download", StartYear>>)>>
    /\ EndYear \in DOMAIN latest_map
    /\ ~Exists(raw, latest_map[EndYear])

\* C10 as stated: after a run that completes, no run having failed, for every year of the range in that
\* run's map, iter_year_files yields the decompressed counterpart of the name
\* build_latest_file_map chose.
C10_PoliciesAgree ==
    (pc = "done" /\ clean) =>
        \A y \in InRange(latest_map) :
            YearFile(raw, y) = [found |-> TRUE, path |-> CsvName(latest_map[y])]

(***************************************************************************)
(* Properties of parse_damage_to_dollars                                   *)
(***************************************************************************)
\* the form of C4: whitespace, a decimal number, at most one of the letters K, M, B
\* of either case, whitespace
C4Letter(c) == c \in {"K", "k", "M", "m", "B", "b"}
C4Body(t) == IF t # <<>> /\ C4Letter(t[Len(t)]) THEN SubSeq(t, 1, Len(t) - 1) ELSE t
C4Form(t) == IsDecimal(C4Body(Strip(t)))
C4Power(t) ==
    LET c == Strip(t)[Len(Strip(t))]
    IN  IF c \in {"K", "k"} THEN 3 ELSE IF c \in {"M", "m"} THEN 6 ELSE IF c \in {"B", "b"} THEN 9 ELSE 0
C4Absent(v) ==
    \/ v.kind \in {"None", "nan"}
    \/ v.kind = "str" /\ Strip(v.s) \in {<<>>, <<"N", "A">>, <<"N", "/", "A">>}
C4Expected(v) ==
    IF C4Absent(v) THEN Zero
    ELSE IF v.kind \in {"number", "bigint"} THEN (IF v.kind = "number" THEN Norm(v.m, v.e) ELSE Zero)
    ELSE IF C4Form(v.s)
         THEN LET a == FloatOfDecimal(C4Body(Strip(v.s))) IN Norm(a.m, a.e + C4Power(v.s))
    ELSE Zero

\* C4 as stated: the function returns for every input; absent, empty, NA and N/A give
\* 0, a number is returned as it is, a text of the form of C4 gives its number times
\* 1, 1,000, 1,000,000 or 1,000,000,000, and every other text gives 0.
C4_TotalAndRuleOrder ==
    "pending" \notin DOMAIN parsed =>
        /\ ~parsed.raised
        /\ parsed.ret = C4Expected(value)

(***************************************************************************)
(* Properties of the Transformer                                           *)
(***************************************************************************)
NoFileFor(y) == \A p \in DOMAIN raw : ~(p.year = Ascii(y, YearWidth) /\ p.ext = ".csv")

\* the letters of a and b are the same up to case
SameLetter(c, d) ==
    \/ c = d
    \/ c \in DOMAIN UpperTable /\ UpperTable[c] = d
    \/ d \in DOMAIN UpperTable /\ UpperTable[d] = c
InRegion(row) ==
    /\ row.STATE.kind = "str"
    /\ Len(row.STATE.s) = Len(TEXAS)
    /\ \A i \in DOMAIN TEXAS : SameLetter(row.STATE.s[i], TEXAS[i])

\* the rows of the files the run reads, in the order of the years
RECURSIVE RowsOf(_)
RowsOf(paths) == IF paths = <<>> THEN <<>> ELSE raw[paths[1]] \o RowsOf(Tail(paths))
Ids(rows) == [i \in DOMAIN rows |-> rows[i].EVENT_ID]

\* C7: a run started with a year of the range lacking a decompressed file fails with
\* FileNotFoundError with no file loaded and OUT_PATH as it was; a run that loads a
\* file has a file for every year.
C7_MissingFileAborts ==
    /\ (tpc \in {"scan", "done"} \/ (tpc = "failed" /\ terr = "RuntimeError")) =>
          /\ \A y \in Years : ~NoFileFor(y)
          /\ Len(files) = Cardinality(Years)
    /\ (tpc = "failed" /\ terr = "FileNotFoundError") =>
          /\ \E y \in Years : NoFileFor(y)
          /\ loaded = <<>>
          /\ all_tx = <<>>
          /\ out = prior

\* the first year has a file with a Texas row, a later year has none, an output exists
C7_Witness ==
    /\ tpc = "failed"
    /\ terr = "FileNotFoundError"
    /\ ~NoFileFor(StartYear)
    /\ \E p \in DOMAIN raw : \E i \in DOMAIN raw[p] : InRegion(raw[p][i])
    /\ out.written

\* C8: the saved table holds exactly the rows of the files read whose STATE is the
\* region's name up to case, in their order, whatever the batch size and wherever
\* they lie; and in each saved row the two parsed amounts are those of its damage
\* cells and the total is their sum.
C8_RegionRowsOnly ==
    tpc = "done" =>
        /\ Ids(out.rows) = Ids(SelectSeq(RowsOf(files), InRegion))
        /\ \A i \in DOMAIN out.rows :
              LET r == out.rows[i]
              IN  /\ InRegion(r)
                  /\ r.DAMAGE_PROPERTY_USD = parse_damage_to_dollars(r.DAMAGE_PROPERTY).ret
                  /\ r.DAMAGE_CROPS_USD = parse_damage_to_dollars(r.DAMAGE_CROPS).ret
                  /\ r.TOTAL_DAMAGE_USD = Plus(r.DAMAGE_PROPERTY_USD, r.DAMAGE_CROPS_USD)

\* batches of one row; a lower-case match is kept, another row is left out, and a
\* year contributes nothing
C8_Witness ==
    /\ tpc = "done"
    /\ chunksize = 1
    /\ Len(out.rows) = 1
    /\ out.rows[1].STATE.s # TEXAS
    /\ Len(RowsOf(files)) = MaxRows
    /\ \E i \in DOMAIN files : raw[files[i]] = <<>>

\* C9: the run ends in the empty-result error only after every year's file was
\* loaded and only when none of them holds a region row, and OUT_PATH is then as it
\* was; a run that completes has found a region row and has written the fresh table
\* to OUT_PATH, whatever was there.
C9_EmptyResultFails ==
    /\ (tpc = "failed" /\ terr = "RuntimeError") =>
          /\ Len(loaded) = Cardinality(Years)
          /\ SelectSeq(RowsOf(files), InRegion) = <<>>
          /\ out = prior
    /\ tpc = "done" =>
          /\ loaded = files
          /\ SelectSeq(RowsOf(files), InRegion) # <<>>
          /\ out.written
          /\ Ids(out.rows) = Ids(SelectSeq(RowsOf(files), InRegion))
          /\ \A i \in DOMAIN out.rows :
                /\ out.rows[i].BEGIN_YEAR * 100 + out.rows[i].BEGIN_MONTH = out.rows[i].BEGIN_YEARMONTH
                /\ out.rows[i].BEGIN_MONTH \in 1..12

\* a second run finds no region row in the newer file of a year and leaves the output
\* of the first run in place
C9_Witness ==
    /\ tpc = "failed"
    /\ terr = "RuntimeError"
    /\ prior.written
    /\ \E p \in DOMAIN raw : \E i \in DOMAIN raw[p] : InRegion(raw[p][i])

====
